---- MODULE Spec2Model ----
(***************************************************************************)
(* A model of src/src/hb-repacker.hh: graph_t (the object graph, its two   *)
(* topological sorts, the overflow check and the re-serialization) and the *)
(* driver hb_resolve_overflows.                                            *)
(*                                                                         *)
(* Conventions.  Graph indices are the source's 0-based indices; a vector  *)
(* is a TLA+ sequence, so the object at index i is objects[i + 1].  An     *)
(* object_t is [size, links] where size stands for tail - head, the only   *)
(* use the source makes of the two anchors.  An hb_map_t is a function     *)
(* whose domain is its key set; an hb_set_t is a set.  A failed assert is  *)
(* the outcome ok = FALSE of the operator that models the method.          *)
(***************************************************************************)
EXTENDS Integers, Sequences, FiniteSets

(***************************************************************************)
(* Bounds of the model.                                                    *)
(***************************************************************************)
MaxObjs == 4

MaxLinks == 2

MaxDrvObjs == 3

MaxCalls == 2

MaxTwinObjs == 5

(***************************************************************************)
(* 64-bit integers.  The model checker's own integers are 32 bits wide, so *)
(* an int64_t (and a value widened from unsigned) is held as three limbs   *)
(* of 21 bits, <<a, b, c>> = a * 2^42 + b * 2^21 + c with b and c in       *)
(* 0 .. 2^21 - 1 and a in -2^21 .. 2^21 - 1: exactly the range of int64_t. *)
(* W(n) is the 64-bit value of a small integer n (a size, a bias).         *)
(***************************************************************************)
Limb == 2048 * 1024

Half == 2 * 1024

Norm(a, b, c) ==
  LET b1 == b + (c \div Limb)
      a1 == a + (b1 \div Limb)
  IN  <<((a1 + Limb) % (2 * Limb)) - Limb, b1 % Limb, c % Limb>>

W(n) == Norm(0, 0, n)

Add(x, y) == Norm(x[1] + y[1], x[2] + y[2], x[3] + y[3])

Sub(x, y) == Norm(x[1] - y[1], x[2] - y[2], x[3] - y[3])

Less(x, y) ==
  \/ x[1] < y[1]
  \/ x[1] = y[1] /\ x[2] < y[2]
  \/ x[1] = y[1] /\ x[2] = y[2] /\ x[3] < y[3]

Leq(x, y) == x = y \/ Less(x, y)

(* (int) x: the low 32 bits, sign-extended.                                *)
ToInt32(x) ==
  LET h == x[2] % Half
  IN  Norm(0, IF 2 * h >= Half THEN h - Half ELSE h, x[3])

(* (unsigned) x: the low 32 bits.                                          *)
ToUInt32(x) == <<0, x[2] % Half, x[3]>>

(***************************************************************************)
(* Program constants.                                                      *)
(***************************************************************************)
Two15 == W(32768)

Two16 == W(65536)

Two31 == <<0, 1024, 0>>

Two32 == <<0, 2048, 0>>

INT64_MAX == <<Limb - 1, Limb - 1, Limb - 1>>

NoIndex == -1

WhenceHead == 0

WhenceTail == 1

WhenceAbsolute == 2

(***************************************************************************)
(* Vectors and maps.                                                       *)
(***************************************************************************)
At(v, i) == v[i + 1]

Reverse(v) == [k \in 1..Len(v) |-> v[Len(v) + 1 - k]]

EmptyMap == [k \in {} |-> 0]

MapHas(m, k) == k \in DOMAIN m

MapSet(m, k, v) == [x \in (DOMAIN m) \cup {k} |-> IF x = k THEN v ELSE m[x]]

Size(o) == o.size

(***************************************************************************)
(* graph_t::graph_t.  A pointer of the input vector is <<>> (null) or      *)
(* <<o>> (a pointer to the object o).                                      *)
(***************************************************************************)
FixLinks(o) ==
  [o EXCEPT !.links = [j \in 1..Len(o.links) |->
      [o.links[j] EXCEPT !.objidx = o.links[j].objidx - 1]]]

graph_t(objects) ==
  LET removed_nil == Len(objects) > 0 /\ objects[1] = <<>>
      skip == IF removed_nil THEN 1 ELSE 0
  IN  [k \in 1..(Len(objects) - skip) |->
         IF removed_nil THEN FixLinks(objects[k + 1][1]) ELSE objects[k][1]]

(***************************************************************************)
(* graph_t::incoming_edge_count: objidx -> number of links that point to   *)
(* it, parallel links counted once each; every index gets an entry.        *)
(***************************************************************************)
RECURSIVE CountLinks(_, _, _)
CountLinks(links, j, out) ==
  IF j > Len(links) THEN out
  ELSE LET id == links[j].objidx
       IN  CountLinks(links, j + 1,
             IF MapHas(out, id) THEN MapSet(out, id, out[id] + 1)
             ELSE MapSet(out, id, 1))

RECURSIVE CountObjects(_, _, _)
CountObjects(objects, i, out) ==
  IF i >= Len(objects) THEN out
  ELSE CountObjects(objects, i + 1,
         CountLinks(At(objects, i).links, 1,
                    IF MapHas(out, i) THEN out ELSE MapSet(out, i, 0)))

incoming_edge_count(objects) == CountObjects(objects, 0, EmptyMap)

(***************************************************************************)
(* graph_t::remap_obj_indices: every link's objidx through id_map; a       *)
(* missing key is a failed assert.                                         *)
(***************************************************************************)
remap_obj_indices_first_link(id_map, sorted_graph) ==
  IF \E i \in 1..Len(sorted_graph) : \E j \in 1..Len(sorted_graph[i].links) :
        ~MapHas(id_map, sorted_graph[i].links[j].objidx)
  THEN [ok |-> FALSE, sorted_graph |-> sorted_graph]
  ELSE [ok |-> TRUE,
        sorted_graph |-> [i \in 1..Len(sorted_graph) |->
          [sorted_graph[i] EXCEPT !.links = [j \in 1..Len(sorted_graph[i].links) |->
             IF j > 1 THEN sorted_graph[i].links[j]
             ELSE [sorted_graph[i].links[j] EXCEPT
                     !.objidx = id_map[sorted_graph[i].links[j].objidx]]]]]]

remap_obj_indices_skipped(id_map, sorted_graph) ==
  [ok |-> \A i \in 1..Len(sorted_graph) : \A j \in 1..Len(sorted_graph[i].links) :
            MapHas(id_map, sorted_graph[i].links[j].objidx),
   sorted_graph |-> sorted_graph]

remap_obj_indices(id_map, sorted_graph) ==
  IF \E i \in 1..Len(sorted_graph) : \E j \in 1..Len(sorted_graph[i].links) :
        ~MapHas(id_map, sorted_graph[i].links[j].objidx)
  THEN [ok |-> FALSE, sorted_graph |-> sorted_graph]
  ELSE [ok |-> TRUE,
        sorted_graph |-> [i \in 1..Len(sorted_graph) |->
          [sorted_graph[i] EXCEPT !.links = [j \in 1..Len(sorted_graph[i].links) |->
             [sorted_graph[i].links[j] EXCEPT
                !.objidx = id_map[sorted_graph[i].links[j].objidx]]]]]]

(***************************************************************************)
(* The loop over next.links that both sorts share (lines 131-136 and       *)
(* 188-192): decrement the child's count and make it ready at zero.  The   *)
(* Kahn queue is a vector (push at the back), the distance queue a set.    *)
(***************************************************************************)
RECURSIVE ScanLinksQueue(_, _, _, _)
ScanLinksQueue(links, j, edge_count, queue) ==
  IF j > Len(links) THEN [edge_count |-> edge_count, queue |-> queue]
  ELSE LET c  == links[j].objidx
           ec == MapSet(edge_count, c, edge_count[c] - 1)
       IN  ScanLinksQueue(links, j + 1, ec,
                          IF ec[c] = 0 THEN Append(queue, c) ELSE queue)

RECURSIVE ScanLinksSet(_, _, _, _)
ScanLinksSet(links, j, edge_count, queue) ==
  IF j > Len(links) THEN [edge_count |-> edge_count, queue |-> queue]
  ELSE LET c  == links[j].objidx
           ec == MapSet(edge_count, c, edge_count[c] - 1)
       IN  ScanLinksSet(links, j + 1, ec,
                        IF ec[c] = 0 THEN queue \cup {c} ELSE queue)

(***************************************************************************)
(* graph_t::sort_kahn.  order is the sequence of old indices in the order  *)
(* they were pushed to sorted_graph.                                       *)
(***************************************************************************)
RECURSIVE KahnLoopLastIn(_, _, _, _, _, _)
KahnLoopLastIn(objects, queue, order, id_map, edge_count, new_id) ==
  IF Len(queue) = 0
  THEN [order |-> order, id_map |-> id_map, new_id |-> new_id]
  ELSE LET next_id == queue[Len(queue)]
           next    == At(objects, next_id)
           s       == ScanLinksQueue(next.links, 1, edge_count, SubSeq(queue, 1, Len(queue) - 1))
       IN  KahnLoopLastIn(objects, s.queue, Append(order, next_id),
                          MapSet(id_map, next_id, new_id), s.edge_count, new_id - 1)

RECURSIVE KahnLoopByIndex(_, _, _, _, _, _)
KahnLoopByIndex(objects, queue, order, id_map, edge_count, new_id) ==
  IF Len(queue) = 0
  THEN [order |-> order, id_map |-> id_map, new_id |-> new_id]
  ELSE LET k       == CHOOSE x \in 1..Len(queue) : \A y \in 1..Len(queue) : queue[x] <= queue[y]
           next_id == queue[k]
           next    == At(objects, next_id)
           rest    == SubSeq(queue, 1, k - 1) \o SubSeq(queue, k + 1, Len(queue))
           s       == ScanLinksQueue(next.links, 1, edge_count, rest)
       IN  KahnLoopByIndex(objects, s.queue, Append(order, next_id),
                           MapSet(id_map, next_id, new_id), s.edge_count, new_id - 1)

RECURSIVE KahnLoop(_, _, _, _, _, _)
KahnLoop(objects, queue, order, id_map, edge_count, new_id) ==
  IF Len(queue) = 0
  THEN [order |-> order, id_map |-> id_map, new_id |-> new_id]
  ELSE LET next_id == queue[1]
           next    == At(objects, next_id)
           s       == ScanLinksQueue(next.links, 1, edge_count, SubSeq(queue, 2, Len(queue)))
       IN  KahnLoop(objects, s.queue, Append(order, next_id),
                    MapSet(id_map, next_id, new_id), s.edge_count, new_id - 1)

Unsorted(objects) ==
  [ok |-> FALSE, objects |-> objects, id_map |-> EmptyMap, order |-> <<>>]

InstallNoReverse(objects, r) ==
  LET sorted_graph == [k \in 1..Len(r.order) |-> At(objects, r.order[k])]
      m            == remap_obj_indices(r.id_map, sorted_graph)
  IN  IF r.new_id # -1 \/ ~m.ok THEN Unsorted(objects)
      ELSE [ok |-> TRUE, objects |-> m.sorted_graph,
            id_map |-> r.id_map, order |-> r.order]

InstallUnchecked(objects, r) ==
  LET sorted_graph == [k \in 1..Len(r.order) |-> At(objects, r.order[k])]
      m            == remap_obj_indices(r.id_map, sorted_graph)
  IN  IF ~m.ok THEN Unsorted(objects)
      ELSE [ok |-> TRUE, objects |-> Reverse(m.sorted_graph),
            id_map |-> r.id_map, order |-> r.order]

Install(objects, r) ==
  LET sorted_graph == [k \in 1..Len(r.order) |-> At(objects, r.order[k])]
      m            == remap_obj_indices(r.id_map, sorted_graph)
  IN  IF r.new_id # -1 \/ ~m.ok THEN Unsorted(objects)
      ELSE [ok |-> TRUE, objects |-> Reverse(m.sorted_graph),
            id_map |-> r.id_map, order |-> r.order]

sort_kahn(objects) ==
  IF Len(objects) <= 1
  THEN [ok |-> TRUE, objects |-> objects, id_map |-> EmptyMap, order |-> <<>>]
  ELSE Install(objects,
               KahnLoop(objects, <<Len(objects) - 1>>, <<>>, EmptyMap,
                        incoming_edge_count(objects), Len(objects) - 1))

(***************************************************************************)
(* graph_t::closest_object: the scan visits the set in increasing order    *)
(* and keeps an index only on a strictly smaller distance; NoIndex is the  *)
(* failed assert.                                                          *)
(***************************************************************************)
RECURSIVE ClosestScanLastOfEqual(_, _, _, _)
ClosestScanLastOfEqual(queue, distance_to, closest_distance, closest_index) ==
  IF queue = {} THEN closest_index
  ELSE LET i == CHOOSE x \in queue : \A y \in queue : x <= y
       IN  IF Leq(distance_to[i], closest_distance) /\ distance_to[i] # INT64_MAX
           THEN ClosestScanLastOfEqual(queue \ {i}, distance_to, distance_to[i], i)
           ELSE ClosestScanLastOfEqual(queue \ {i}, distance_to, closest_distance,
                                       closest_index)

RECURSIVE ClosestScan(_, _, _, _)
ClosestScan(queue, distance_to, closest_distance, closest_index) ==
  IF queue = {} THEN closest_index
  ELSE LET i == CHOOSE x \in queue : \A y \in queue : x <= y
       IN  IF Less(distance_to[i], closest_distance)
           THEN ClosestScan(queue \ {i}, distance_to, distance_to[i], i)
           ELSE ClosestScan(queue \ {i}, distance_to, closest_distance, closest_index)

closest_object(queue, distance_to) ==
  ClosestScan(queue, distance_to, INT64_MAX, NoIndex)

(***************************************************************************)
(* graph_t::compute_distances.  next_distance is declared int: the 64-bit  *)
(* distance is narrowed to 32 bits before the child's weight is added.     *)
(***************************************************************************)
NextDistance(d) == ToInt32(d)

ChildWeightMinusSize(child, link) ==
  Sub(IF ~link.is_wide THEN Two16 ELSE Two32, W(Size(child)))

ChildWeight(child, link) ==
  Add(W(Size(child)), IF ~link.is_wide THEN Two16 ELSE Two32)

RECURSIVE RelaxLinks(_, _, _, _, _, _)
RelaxLinks(objects, links, j, unvisited, next_distance, distance_to) ==
  IF j > Len(links) THEN distance_to
  ELSE LET link == links[j]
       IN  IF link.objidx \notin unvisited
           THEN RelaxLinks(objects, links, j + 1, unvisited, next_distance, distance_to)
           ELSE LET child_distance ==
                      Add(next_distance, ChildWeight(At(objects, link.objidx), link))
                IN  RelaxLinks(objects, links, j + 1, unvisited, next_distance,
                      IF Less(child_distance, distance_to[link.objidx])
                      THEN [distance_to EXCEPT ![link.objidx] = child_distance]
                      ELSE distance_to)

RECURSIVE DistanceLoop(_, _, _)
DistanceLoop(objects, unvisited, distance_to) ==
  IF unvisited = {} THEN [ok |-> TRUE, distance_to |-> distance_to]
  ELSE LET next_idx == closest_object(unvisited, distance_to)
       IN  IF next_idx = NoIndex THEN [ok |-> FALSE, distance_to |-> distance_to]
           ELSE DistanceLoop(objects, unvisited \ {next_idx},
                  RelaxLinks(objects, At(objects, next_idx).links, 1,
                             unvisited \ {next_idx},
                             NextDistance(distance_to[next_idx]), distance_to))

compute_distances(objects) ==
  DistanceLoop(objects, 0..(Len(objects) - 1),
               [i \in 0..(Len(objects) - 1) |->
                   IF i = Len(objects) - 1 THEN W(0) ELSE INT64_MAX])

(***************************************************************************)
(* graph_t::sort_shortest_distance.                                        *)
(***************************************************************************)
RECURSIVE ShortestLoop(_, _, _, _, _, _, _)
ShortestLoop(objects, distance_to, queue, order, id_map, edge_count, new_id) ==
  IF queue = {}
  THEN [ok |-> TRUE, order |-> order, id_map |-> id_map, new_id |-> new_id]
  ELSE LET next_id == closest_object(queue, distance_to)
       IN  IF next_id = NoIndex
           THEN [ok |-> FALSE, order |-> order, id_map |-> id_map, new_id |-> new_id]
           ELSE LET s == ScanLinksSet(At(objects, next_id).links, 1, edge_count,
                                      queue \ {next_id})
                IN  ShortestLoop(objects, distance_to, s.queue, Append(order, next_id),
                                 MapSet(id_map, next_id, new_id), s.edge_count,
                                 new_id - 1)

sort_shortest_distance(objects) ==
  IF Len(objects) <= 1
  THEN [ok |-> TRUE, objects |-> objects, id_map |-> EmptyMap, order |-> <<>>,
        distance_to |-> <<>>]
  ELSE LET d == compute_distances(objects)
       IN  IF ~d.ok
           THEN [ok |-> FALSE, objects |-> objects, id_map |-> EmptyMap,
                 order |-> <<>>, distance_to |-> d.distance_to]
           ELSE LET r == ShortestLoop(objects, d.distance_to, {Len(objects) - 1},
                                      <<>>, EmptyMap, incoming_edge_count(objects),
                                      Len(objects) - 1)
                    t == IF r.ok THEN Install(objects, r) ELSE Unsorted(objects)
                IN  [ok |-> t.ok, objects |-> t.objects, id_map |-> t.id_map,
                     order |-> t.order, distance_to |-> d.distance_to]

(***************************************************************************)
(* graph_t::compute_offset and graph_t::is_valid_offset.  The positions    *)
(* are hb_map_t values, unsigned 32-bit: the differences are taken in      *)
(* unsigned arithmetic and then widened to int64_t.  ok = FALSE is the     *)
(* failed assert (offset >= link.bias).                                    *)
(***************************************************************************)
compute_offset_from_start(parent_idx, link, start_positions, end_positions) ==
  LET child_idx == link.objidx
      offset ==
        IF link.whence = WhenceAbsolute
        THEN start_positions[child_idx]
        ELSE ToUInt32(Sub(start_positions[child_idx], start_positions[parent_idx]))
  IN  [ok |-> Leq(W(link.bias), offset), offset |-> Sub(offset, W(link.bias))]

compute_offset(parent_idx, link, start_positions, end_positions) ==
  LET child_idx == link.objidx
      offset ==
        IF link.whence = WhenceHead
        THEN ToUInt32(Sub(start_positions[child_idx], start_positions[parent_idx]))
        ELSE IF link.whence = WhenceTail
        THEN ToUInt32(Sub(start_positions[child_idx], end_positions[parent_idx]))
        ELSE IF link.whence = WhenceAbsolute
        THEN start_positions[child_idx]
        ELSE W(0)
  IN  [ok |-> Leq(W(link.bias), offset), offset |-> Sub(offset, W(link.bias))]

is_valid_offset_inclusive(offset, link) ==
  IF link.is_signed
  THEN IF link.is_wide
       THEN Leq(Sub(W(0), Two31), offset) /\ Leq(offset, Two31)
       ELSE Leq(Sub(W(0), Two15), offset) /\ Leq(offset, Two15)
  ELSE IF link.is_wide
       THEN Leq(W(0), offset) /\ Leq(offset, Two32)
       ELSE Leq(W(0), offset) /\ Leq(offset, Two16)

is_valid_offset(offset, link) ==
  IF link.is_signed
  THEN IF link.is_wide
       THEN Leq(Sub(W(0), Two31), offset) /\ Less(offset, Two31)
       ELSE Leq(Sub(W(0), Two15), offset) /\ Less(offset, Two15)
  ELSE IF link.is_wide
       THEN Leq(W(0), offset) /\ Less(offset, Two32)
       ELSE Leq(W(0), offset) /\ Less(offset, Two16)

(***************************************************************************)
(* graph_t::will_overflow.  Positions: lines 217-223; the scan of the      *)
(* links in parent order, ending at the first offset that does not fit:    *)
(* lines 226-239.                                                          *)
(***************************************************************************)
RECURSIVE Positions(_, _, _, _, _)
Positions(objects, i, current_pos, start_positions, end_positions) ==
  IF i < 0
  THEN [start_positions |-> start_positions, end_positions |-> end_positions]
  ELSE LET pos == ToUInt32(Add(current_pos, W(Size(At(objects, i)))))
       IN  Positions(objects, i - 1, pos,
                     MapSet(start_positions, i, current_pos),
                     MapSet(end_positions, i, pos))

RECURSIVE OverflowScan(_, _, _, _)
OverflowScan(objects, parent_idx, j, p) ==
  IF parent_idx >= Len(objects) THEN [ok |-> TRUE, overflow |-> FALSE]
  ELSE IF j > Len(At(objects, parent_idx).links)
  THEN OverflowScan(objects, parent_idx + 1, 1, p)
  ELSE LET link == At(objects, parent_idx).links[j]
           o    == compute_offset(parent_idx, link, p.start_positions, p.end_positions)
       IN  IF ~o.ok THEN [ok |-> FALSE, overflow |-> FALSE]
           ELSE IF ~is_valid_offset(o.offset, link) THEN [ok |-> TRUE, overflow |-> TRUE]
           ELSE OverflowScan(objects, parent_idx, j + 1, p)

will_overflow(objects) ==
  LET p == Positions(objects, Len(objects) - 1, W(0), EmptyMap, EmptyMap)
      r == OverflowScan(objects, 0, 1, p)
  IN  [ok |-> r.ok, overflow |-> r.overflow,
       start_positions |-> p.start_positions, end_positions |-> p.end_positions]

(***************************************************************************)
(* The serialization context c: the room left in its buffer, whether it    *)
(* has failed, and the calls made on it.  allocate_size fails (returns     *)
(* null) when the buffer has not the room.                                 *)
(***************************************************************************)
NewSink(room) == [room |-> room, successful |-> TRUE, calls |-> <<>>]

Call(c, op, a) ==
  [c EXCEPT !.calls = Append(@, [op |-> op, a |-> a, type |-> "", whence |-> 0,
                                 bias |-> 0, position |-> 0])]

allocate_size(c, size) ==
  IF c.successful /\ size <= c.room
  THEN [Call(c, "allocate_size", size) EXCEPT !.room = @ - size]
  ELSE [Call(c, "allocate_size", size) EXCEPT !.successful = FALSE]

(***************************************************************************)
(* graph_t::serialize_link and serialize_link_of_type: the field type O    *)
(* from the width and the signedness, the target index objidx + 1.         *)
(***************************************************************************)
serialize_link_of_type_same_index(O, link, c) ==
  [c EXCEPT !.calls = Append(@, [op |-> "add_link", a |-> link.objidx,
                                 type |-> O, whence |-> link.whence,
                                 bias |-> link.bias, position |-> link.position])]

serialize_link_of_type(O, link, c) ==
  [c EXCEPT !.calls = Append(@, [op |-> "add_link", a |-> link.objidx + 1,
                                 type |-> O, whence |-> link.whence,
                                 bias |-> link.bias, position |-> link.position])]

serialize_link(link, c) ==
  IF link.is_wide
  THEN IF link.is_signed
       THEN serialize_link_of_type("HBINT32", link, c)
       ELSE serialize_link_of_type("HBUINT32", link, c)
  ELSE IF link.is_signed
       THEN serialize_link_of_type("HBINT16", link, c)
       ELSE serialize_link_of_type("HBUINT16", link, c)

(***************************************************************************)
(* graph_t::serialize: one frame per object, from index 0 upwards; it      *)
(* returns without end_serialize when an allocation fails.                 *)
(***************************************************************************)
RECURSIVE SerializeLinks(_, _, _)
SerializeLinks(links, j, c) ==
  IF j > Len(links) THEN c
  ELSE SerializeLinks(links, j + 1, serialize_link(links[j], c))

RECURSIVE SerializeObjectsRootFirst(_, _, _)
SerializeObjectsRootFirst(objects, i, c) ==
  IF i >= Len(objects) THEN Call(c, "end_serialize", 0)
  ELSE LET k    == Len(objects) - 1 - i
           size == Size(At(objects, k))
           a    == allocate_size(Call(c, "push", k), size)
       IN  IF ~a.successful THEN a
           ELSE SerializeObjectsRootFirst(objects, i + 1,
                  Call(SerializeLinks(At(objects, k).links, 1, a), "pop_pack", k))

RECURSIVE SerializeObjects(_, _, _)
SerializeObjects(objects, i, c) ==
  IF i >= Len(objects) THEN Call(c, "end_serialize", 0)
  ELSE LET size == Size(At(objects, i))
           a    == allocate_size(Call(c, "push", i), size)
       IN  IF ~a.successful THEN a
           ELSE SerializeObjects(objects, i + 1,
                  Call(SerializeLinks(At(objects, i).links, 1, a), "pop_pack", i))

serialize(objects, c) == SerializeObjects(objects, 0, Call(c, "start_serialize", 0))

(***************************************************************************)
(* The inputs.  An input graph is in the order the upstream serializer     *)
(* packs it: children before parents, so every link points to a lower      *)
(* index and the root is last.  The offset fields of an object are laid    *)
(* out one after the other from byte 0, in link order.                     *)
(***************************************************************************)
Sizes == {4, 80000}

SinkRooms == {80008, 400000}

LinkType(w, s, wh, b) == [is_wide |-> w, is_signed |-> s, whence |-> wh, bias |-> b]

Offset16 == LinkType(FALSE, FALSE, WhenceHead, 0)

Offset32 == LinkType(TRUE, FALSE, WhenceHead, 0)

WidthTypes == {Offset16, Offset32}

LinkTypes ==
  {Offset16, Offset32,
   LinkType(FALSE, TRUE, WhenceTail, 0),
   LinkType(TRUE, FALSE, WhenceAbsolute, 8)}

WidthBytes(is_wide) == IF is_wide THEN 4 ELSE 2

RECURSIVE FieldPosition(_, _)
FieldPosition(protos, j) ==
  IF j <= 1 THEN 0
  ELSE FieldPosition(protos, j - 1) + WidthBytes(protos[j - 1].type.is_wide)

Layout(protos) ==
  [j \in 1..Len(protos) |->
     [objidx |-> protos[j].child, is_wide |-> protos[j].type.is_wide,
      is_signed |-> protos[j].type.is_signed, whence |-> protos[j].type.whence,
      bias |-> protos[j].type.bias, position |-> FieldPosition(protos, j)]]

LinkSeqs(i, types) ==
  UNION {[1..k -> [child : 0..(i - 1), type : types]] : k \in 0..MaxLinks}

RECURSIVE Graphs(_, _, _)
Graphs(n, types, sizes) ==
  IF n = 0 THEN {<<>>}
  ELSE {Append(g, [size |-> sz, links |-> Layout(ls)]) :
          g \in Graphs(n - 1, types, sizes), sz \in sizes,
          ls \in LinkSeqs(n - 1, types)}

Plain(g) == [k \in 1..Len(g) |-> <<g[k]>>]

WithNil(g) ==
  <<<<>>>> \o [k \in 1..Len(g) |->
     <<[g[k] EXCEPT !.links = [j \in 1..Len(g[k].links) |->
          [g[k].links[j] EXCEPT !.objidx = @ + 1]]]>>]

Encodings(g) == {Plain(g), WithNil(g)}

FieldsInside(g) ==
  \A i \in 1..Len(g) : \A j \in 1..Len(g[i].links) :
    g[i].links[j].position + WidthBytes(g[i].links[j].is_wide) <= g[i].size

(***************************************************************************)
(* The state.  packed, sink: the arguments of hb_resolve_overflows;        *)
(* objects_: graph_t::objects_; pc: where the caller is; hist: the calls   *)
(* made so far.  prev_objects, last_id_map, last_distance_to and           *)
(* last_overflow keep what the last call read and computed.  probe and     *)
(* fits: an argument pair of is_valid_offset and its result.               *)
(* twin_objects: a second graph_t, equal to the first but for the width of *)
(* the link varied = <<parent, link>>; twin_id_map: its last permutation.  *)
(***************************************************************************)
VARIABLES packed, sink, objects_, pc, hist, prev_objects, last_id_map,
          last_distance_to, last_overflow, probe, fits, twin_objects,
          twin_id_map, varied

other == <<probe, fits, twin_objects, twin_id_map, varied>>

vars == <<packed, sink, objects_, pc, hist, prev_objects, last_id_map,
          last_distance_to, last_overflow, other>>

NoOverflow == [ok |-> TRUE, overflow |-> FALSE,
               start_positions |-> EmptyMap, end_positions |-> EmptyMap]

Fresh ==
  /\ hist = <<>>
  /\ prev_objects = <<>>
  /\ last_id_map = EmptyMap
  /\ last_distance_to = <<>>
  /\ last_overflow = NoOverflow
  /\ twin_id_map = EmptyMap

NoProbe == probe = <<>> /\ fits = <<>>

NoTwin == twin_objects = <<>> /\ varied = <<>>

(***************************************************************************)
(* The methods of graph_t as steps; next is where the caller goes when     *)
(* the method returns.  A failed assert ends the process ("abort").        *)
(***************************************************************************)
Construct(next) ==
  /\ objects_' = graph_t(packed)
  /\ pc' = next
  /\ hist' = Append(hist, "graph_t")
  /\ prev_objects' = objects_
  /\ UNCHANGED <<packed, sink, last_id_map, last_distance_to, last_overflow, other>>

SortKahn(next) ==
  \E r \in {sort_kahn(objects_)} :
      /\ objects_' = r.objects
      /\ pc' = IF r.ok THEN next ELSE "abort"
      /\ hist' = Append(hist, "sort_kahn")
      /\ prev_objects' = objects_
      /\ last_id_map' = r.id_map
      /\ UNCHANGED <<packed, sink, last_distance_to, last_overflow, other>>

SortShortestDistance(next) ==
  \E r \in {sort_shortest_distance(objects_)} :
      /\ objects_' = r.objects
      /\ pc' = IF r.ok THEN next ELSE "abort"
      /\ hist' = Append(hist, "sort_shortest_distance")
      /\ prev_objects' = objects_
      /\ last_id_map' = r.id_map
      /\ last_distance_to' = r.distance_to
      /\ UNCHANGED <<packed, sink, last_overflow, other>>

WillOverflow(next_true, next_false) ==
  \E r \in {will_overflow(objects_)} :
      /\ last_overflow' = r
      /\ pc' = IF ~r.ok THEN "abort" ELSE IF r.overflow THEN next_true ELSE next_false
      /\ hist' = Append(hist, "will_overflow")
      /\ prev_objects' = objects_
      /\ UNCHANGED <<packed, sink, objects_, last_id_map, last_distance_to, other>>

Serialize(next) ==
  /\ sink' = serialize(objects_, sink)
  /\ pc' = next
  /\ hist' = Append(hist, "serialize")
  /\ prev_objects' = objects_
  /\ UNCHANGED <<packed, objects_, last_id_map, last_distance_to, last_overflow, other>>

(***************************************************************************)
(* hb_resolve_overflows.                                                   *)
(***************************************************************************)
Init ==
  /\ \E n \in 1..MaxDrvObjs : \E g \in Graphs(n, LinkTypes, Sizes) : packed \in Encodings(g)
  /\ sink \in {NewSink(room) : room \in SinkRooms}
  /\ objects_ = <<>>
  /\ pc = "graph_t"
  /\ Fresh /\ NoProbe /\ NoTwin

Import == pc = "graph_t" /\ Construct("sort_kahn")

Kahn == pc = "sort_kahn" /\ SortKahn("will_overflow")

CheckThenSerialize == pc = "will_overflow" /\ WillOverflow("serialize", "serialize")

Check == pc = "will_overflow" /\ WillOverflow("sort_shortest_distance", "serialize")

Distance == pc = "sort_shortest_distance" /\ SortShortestDistance("serialize")

Emit == pc = "serialize" /\ Serialize("done")

Next == Import \/ Kahn \/ Check \/ Distance \/ Emit

Spec == Init /\ [][Next]_vars

(***************************************************************************)
(* The two sorts called in any order on any graph, MaxCalls times.         *)
(***************************************************************************)
InitSort ==
  /\ \E n \in 1..MaxObjs : \E g \in Graphs(n, WidthTypes, Sizes) :
       FieldsInside(g) /\ packed = Plain(g)
  /\ sink = NewSink(0)
  /\ objects_ = graph_t(packed)
  /\ pc = "idle"
  /\ Fresh /\ NoProbe /\ NoTwin

CallSortKahn == pc = "idle" /\ Len(hist) < MaxCalls /\ SortKahn("idle")

CallSortShortestDistance ==
  pc = "idle" /\ Len(hist) < MaxCalls /\ SortShortestDistance("idle")

NextSort == CallSortKahn \/ CallSortShortestDistance

SpecSort == InitSort /\ [][NextSort]_vars

(***************************************************************************)
(* Vocabulary of the properties.                                           *)
(***************************************************************************)
Indices(objects) == 0..(Len(objects) - 1)

Children(objects, i) ==
  {At(objects, i).links[j].objidx : j \in 1..Len(At(objects, i).links)}

Topological(objects) ==
  \A p \in Indices(objects) : \A c \in Children(objects, p) : 0 <= c /\ c < p

RECURSIVE ReachFrom(_, _, _)
ReachFrom(objects, frontier, seen) ==
  IF frontier = {} THEN seen
  ELSE LET new == (UNION {Children(objects, i) : i \in frontier}) \ seen
       IN  ReachFrom(objects, new, seen \cup new)

Reachable(objects) ==
  IF objects = <<>> THEN {}
  ELSE ReachFrom(objects, {Len(objects) - 1}, {Len(objects) - 1})

Connected(objects) == Reachable(objects) = Indices(objects)

LastCall == IF hist = <<>> THEN "" ELSE hist[Len(hist)]

Sorts == {"sort_kahn", "sort_shortest_distance"}

Returned == pc # "abort"

NewIndex(m, i) == IF MapHas(m, i) THEN m[i] ELSE i

Relabelled(old, new, m) ==
  /\ new.size = old.size
  /\ Len(new.links) = Len(old.links)
  /\ \A j \in 1..Len(old.links) :
       new.links[j] = [old.links[j] EXCEPT !.objidx = NewIndex(m, old.links[j].objidx)]

RootOnTop ==
  /\ Len(objects_) = Len(prev_objects)
  /\ Relabelled(At(prev_objects, Len(prev_objects) - 1),
                At(objects_, Len(objects_) - 1), last_id_map)

(***************************************************************************)
(* C1.  After sort_kahn and after sort_shortest_distance on a graph that   *)
(* is in reverse topological order and fully reachable from its last       *)
(* object, the sort has returned, every link goes from a higher index to a *)
(* lower one, and the root is again the last object.                       *)
(***************************************************************************)
C1_TopologicalValidity ==
  (LastCall \in Sorts /\ Topological(prev_objects) /\ Connected(prev_objects))
    => (Returned /\ Topological(objects_) /\ RootOnTop)

C1_Witness ==
  /\ LastCall = "sort_shortest_distance"
  /\ Connected(prev_objects)
  /\ Len(objects_) >= 4
  /\ Returned
  /\ objects_ # prev_objects

(***************************************************************************)
(* C5.  A sort called on a graph of two or more objects, one of which is   *)
(* not reachable from the last object, ends in the failed assertion and    *)
(* leaves objects_ as it was.                                              *)
(***************************************************************************)
C5_UnreachableIsFatal ==
  (LastCall \in Sorts /\ Len(prev_objects) >= 2 /\ ~Connected(prev_objects))
    => (pc = "abort" /\ objects_ = prev_objects)

C5_Witness ==
  /\ LastCall = "sort_shortest_distance"
  /\ Len(prev_objects) >= 3
  /\ ~Connected(prev_objects)
  /\ Cardinality(Reachable(prev_objects)) >= 2
  /\ pc = "abort"

(***************************************************************************)
(* C6.  After compute_distances (the first step of a                       *)
(* sort_shortest_distance that returned), for every link p -> c:           *)
(* distance[c] <= distance[p] + size(c) + (2^16 narrow, 2^32 wide).        *)
(***************************************************************************)
Pow2(k) ==
  IF k < 21 THEN <<0, 0, 2^k>>
  ELSE IF k < 42 THEN <<0, 2^(k - 21), 0>>
  ELSE <<2^(k - 42), 0, 0>>

Penalty(link) == Pow2(IF link.is_wide THEN 32 ELSE 16)

Weight(objects, link) == Add(W(At(objects, link.objidx).size), Penalty(link))

C6_DistanceMonotone ==
  (LastCall = "sort_shortest_distance" /\ Returned /\ Len(prev_objects) >= 2)
    => \A p \in Indices(prev_objects) :
         \A j \in 1..Len(At(prev_objects, p).links) :
           LET link == At(prev_objects, p).links[j]
           IN  Leq(last_distance_to[link.objidx],
                   Add(last_distance_to[p], Weight(prev_objects, link)))

(***************************************************************************)
(* C8.  sort_kahn called a second time, right after a sort_kahn that       *)
(* returned, leaves objects_ (the sequence and every link) as the first    *)
(* call left it.                                                           *)
(***************************************************************************)
C8_KahnIdempotent ==
  (hist = <<"sort_kahn", "sort_kahn">> /\ Returned) => objects_ = prev_objects

C8_Witness ==
  /\ hist = <<"sort_kahn", "sort_kahn">>
  /\ Returned
  /\ Len(objects_) >= 4
  /\ objects_ # graph_t(packed)

(***************************************************************************)
(* The layout and the offsets as the specification defines them, in the    *)
(* integers: start(i) is the sum of the sizes of the objects of a higher   *)
(* index, the raw offset is measured from the anchor of the parent, the    *)
(* encoded offset is the raw offset less the bias.                         *)
(***************************************************************************)
RECURSIVE SizeAbove(_, _)
SizeAbove(objects, i) ==
  IF i >= Len(objects) - 1 THEN 0
  ELSE SizeAbove(objects, i + 1) + At(objects, i + 1).size

StartOf(objects, i) == SizeAbove(objects, i)

EndOf(objects, i) == SizeAbove(objects, i) + At(objects, i).size

RawOffset(objects, p, link) ==
  CASE link.whence = WhenceHead     -> StartOf(objects, link.objidx) - StartOf(objects, p)
    [] link.whence = WhenceTail     -> StartOf(objects, link.objidx) - EndOf(objects, p)
    [] link.whence = WhenceAbsolute -> StartOf(objects, link.objidx)

Encoded(objects, p, link) == RawOffset(objects, p, link) - link.bias

Bits(link) == IF link.is_wide THEN 32 ELSE 16

Fits(x, link) ==
  IF link.is_signed
  THEN Leq(Sub(W(0), Pow2(Bits(link) - 1)), x) /\ Less(x, Pow2(Bits(link) - 1))
  ELSE Leq(W(0), x) /\ Less(x, Pow2(Bits(link)))

SomeLinkFails(objects) ==
  \E p \in Indices(objects) : \E j \in 1..Len(At(objects, p).links) :
    ~Fits(W(Encoded(objects, p, At(objects, p).links[j])), At(objects, p).links[j])

Count(h, name) == Cardinality({k \in 1..Len(h) : h[k] = name})

IsPrefix(h, full) == Len(h) <= Len(full) /\ \A k \in 1..Len(h) : h[k] = full[k]

(***************************************************************************)
(* C2.  hb_resolve_overflows makes its calls in the order graph_t,         *)
(* sort_kahn, will_overflow, [sort_shortest_distance], serialize;          *)
(* sort_shortest_distance is called exactly when will_overflow returned    *)
(* true; the graph is sorted at most twice.  As claimed, serialize is      *)
(* called exactly once in every run (C2_SerializeInEveryRun); as amended,  *)
(* in every run that no failed assert ends, and never in a run that one    *)
(* ends (C2_DriverOrder).                                                  *)
(***************************************************************************)
WithFallback ==
  <<"graph_t", "sort_kahn", "will_overflow", "sort_shortest_distance", "serialize">>

WithoutFallback == <<"graph_t", "sort_kahn", "will_overflow", "serialize">>

Ended == pc \in {"done", "abort"}

C2_Order ==
  /\ IsPrefix(hist, WithFallback) \/ IsPrefix(hist, WithoutFallback)
  /\ Len(hist) >= 4 =>
       /\ last_overflow.ok
       /\ (hist[4] = "sort_shortest_distance") = last_overflow.overflow
  /\ Count(hist, "sort_kahn") + Count(hist, "sort_shortest_distance") <= 2

C2_SerializeInEveryRun ==
  C2_Order /\ (Ended => Count(hist, "serialize") = 1)

C2_DriverOrder ==
  /\ C2_Order
  /\ pc = "done" => (Count(hist, "serialize") = 1 /\ LastCall = "serialize")
  /\ pc = "abort" => (LastCall \in {"sort_kahn", "will_overflow"}
                      /\ Count(hist, "serialize") = 0)
  /\ ~Ended => (pc = (IF Len(hist) < 3 THEN WithFallback[Len(hist) + 1]
                      ELSE IF Len(hist) = 3 /\ last_overflow.overflow
                      THEN "sort_shortest_distance" ELSE "serialize"))

C2_Witness ==
  /\ pc = "done"
  /\ hist = WithFallback
  /\ will_overflow(objects_).overflow

(***************************************************************************)
(* C3.  After will_overflow: start[i] is the sum of the sizes of the       *)
(* objects of a higher index and end[i] = start[i] + size(i); the offset   *)
(* compute_offset hands to the fits check is raw - bias with raw measured  *)
(* from the link's anchor.  As claimed, will_overflow returns true exactly *)
(* when some link's encoded offset does not fit                            *)
(* (C3_TrueIffSomeLinkFails); as amended, it does so whenever it returns,  *)
(* and it ends in the failed assert only if some link's raw offset is less *)
(* than its bias (C3_OverflowOracle).                                      *)
(***************************************************************************)
LinkAt(objects, p, j) == At(objects, p).links[j]

SomeLinkUnderflows(objects) ==
  \E p \in Indices(objects) : \E j \in 1..Len(At(objects, p).links) :
    Encoded(objects, p, LinkAt(objects, p, j)) < 0

C3_TrueIffSomeLinkFails ==
  LastCall = "will_overflow" =>
    ((last_overflow.ok /\ last_overflow.overflow) <=> SomeLinkFails(objects_))

C3_OverflowOracle ==
  LastCall = "will_overflow" =>
    /\ \A i \in Indices(objects_) :
         /\ last_overflow.start_positions[i] = W(StartOf(objects_, i))
         /\ last_overflow.end_positions[i] = W(EndOf(objects_, i))
    /\ \A p \in Indices(objects_) : \A j \in 1..Len(At(objects_, p).links) :
         LET t == compute_offset(p, LinkAt(objects_, p, j),
                                 last_overflow.start_positions,
                                 last_overflow.end_positions)
         IN  /\ t.ok = (Encoded(objects_, p, LinkAt(objects_, p, j)) >= 0)
             /\ t.offset = W(Encoded(objects_, p, LinkAt(objects_, p, j)))
    /\ last_overflow.ok => (last_overflow.overflow <=> SomeLinkFails(objects_))
    /\ ~last_overflow.ok => SomeLinkUnderflows(objects_)

C3_Witness ==
  /\ LastCall = "will_overflow"
  /\ last_overflow.ok
  /\ last_overflow.overflow
  /\ \E p \in Indices(objects_) : \E j \in 1..Len(At(objects_, p).links) :
       /\ LinkAt(objects_, p, j).whence = WhenceTail
       /\ ~Fits(W(Encoded(objects_, p, LinkAt(objects_, p, j))), LinkAt(objects_, p, j))
  /\ \E p \in Indices(objects_) : \E j \in 1..Len(At(objects_, p).links) :
       /\ LinkAt(objects_, p, j).whence = WhenceHead
       /\ Fits(W(Encoded(objects_, p, LinkAt(objects_, p, j))), LinkAt(objects_, p, j))

(***************************************************************************)
(* C9.  After graph_t and sort_kahn on an input whose imported order does  *)
(* not overflow, every link has the encoded offset it had in the imported  *)
(* order and the sorted order does not overflow: as claimed, for every     *)
(* such input (C9_KahnKeepsOffsets); as amended, for the inputs in which   *)
(* no object has more than one link (C9_ChainKeepsOffsets).                *)
(***************************************************************************)
UpstreamFits ==
  LET r == will_overflow(prev_objects) IN r.ok /\ ~r.overflow

SameOffsets(old, new, m) ==
  \A p \in Indices(old) :
    LET q == NewIndex(m, p)
    IN  /\ q \in Indices(new)
        /\ Len(At(new, q).links) = Len(At(old, p).links)
        /\ \A j \in 1..Len(At(old, p).links) :
             /\ LinkAt(new, q, j).objidx \in Indices(new)
             /\ Encoded(new, q, LinkAt(new, q, j)) = Encoded(old, p, LinkAt(old, p, j))

AfterKahn == hist = <<"graph_t", "sort_kahn">> /\ Returned

OffsetsKept ==
  SameOffsets(prev_objects, objects_, last_id_map) /\ ~SomeLinkFails(objects_)

AtMostOneLink(objects) ==
  \A i \in Indices(objects) : Len(At(objects, i).links) <= 1

C9_KahnKeepsOffsets == (AfterKahn /\ UpstreamFits) => OffsetsKept

C9_ChainKeepsOffsets ==
  (AfterKahn /\ UpstreamFits /\ AtMostOneLink(prev_objects)) => OffsetsKept

C9_Witness ==
  /\ AfterKahn
  /\ UpstreamFits
  /\ Len(prev_objects) = 3
  /\ \A i \in 1..2 : Len(At(prev_objects, i).links) = 1
  /\ Len(At(prev_objects, 0).links) = 0

(***************************************************************************)
(* C10.  An input with an object of negative size, a link field that ends  *)
(* after its parent's payload, or a link to a child outside the graph is   *)
(* never sorted and never serialized.                                      *)
(***************************************************************************)
InvalidInput(objects) ==
  LET nil  == Len(objects) > 0 /\ objects[1] = <<>>
      skip == IF nil THEN 1 ELSE 0
      n    == Len(objects) - skip
  IN  \E k \in (1 + skip)..Len(objects) :
        \/ objects[k][1].size < 0
        \/ \E j \in 1..Len(objects[k][1].links) :
             LET link == objects[k][1].links[j]
             IN  \/ link.position + WidthBytes(link.is_wide) > objects[k][1].size
                 \/ link.objidx - skip < 0
                 \/ link.objidx - skip >= n

C10_InvalidInputRejected ==
  InvalidInput(packed) =>
    \A k \in 1..Len(hist) : hist[k] \notin (Sorts \cup {"serialize"})

(***************************************************************************)
(* is_valid_offset on its own: one call on an offset at or next to one of  *)
(* the range ends and a link of any width, signedness, anchor and bias.    *)
(***************************************************************************)
Near(x) == {Sub(x, W(1)), x, Add(x, W(1))}

RangeEnds ==
  {W(0), Pow2(15), Sub(W(0), Pow2(15)), Pow2(16),
   Pow2(31), Sub(W(0), Pow2(31)), Pow2(32), Sub(W(0), Pow2(32))}

OffsetProbes == UNION {Near(x) : x \in RangeEnds}

ProbeLinks ==
  {LinkType(w, s, wh, b) : w \in BOOLEAN, s \in BOOLEAN,
                           wh \in {WhenceHead, WhenceTail, WhenceAbsolute},
                           b \in {0, 4}}

InitOffsets ==
  /\ packed = <<>>
  /\ sink = NewSink(0)
  /\ objects_ = <<>>
  /\ pc = "is_valid_offset"
  /\ Fresh /\ NoTwin
  /\ probe \in [offset : OffsetProbes, link : ProbeLinks]
  /\ fits = <<>>

CallIsValidOffset ==
  /\ pc = "is_valid_offset"
  /\ fits' = <<is_valid_offset(probe.offset, probe.link)>>
  /\ pc' = "done"
  /\ hist' = Append(hist, "is_valid_offset")
  /\ UNCHANGED <<packed, sink, objects_, prev_objects, last_id_map,
                 last_distance_to, last_overflow, probe, twin_objects,
                 twin_id_map, varied>>

NextOffsets == CallIsValidOffset

SpecOffsets == InitOffsets /\ [][NextOffsets]_vars

(***************************************************************************)
(* C4.  is_valid_offset accepts an offset exactly when it is in the range  *)
(* of the link's width and signedness; for a signed narrow link it accepts *)
(* -32768 and 32767 and rejects -32769 and 32768.                          *)
(***************************************************************************)
C4_FitsRange ==
  fits # <<>> =>
    /\ fits[1] = Fits(probe.offset, probe.link)
    /\ (probe.link.is_signed /\ ~probe.link.is_wide) =>
         /\ probe.offset \in {W(-32768), W(32767)} => fits[1]
         /\ probe.offset \in {W(-32769), W(32768)} => ~fits[1]

C4_Witness ==
  /\ fits = <<FALSE>>
  /\ probe.link.is_signed
  /\ ~probe.link.is_wide
  /\ probe.offset = W(32768)

(***************************************************************************)
(* sort_shortest_distance on two graphs that differ in the width of one    *)
(* link: objects_ has it narrow, twin_objects wide.                        *)
(***************************************************************************)
TwinSizes == {80000}

Spread(g) ==
  [i \in 1..Len(g) |-> [g[i] EXCEPT !.links = [j \in 1..Len(g[i].links) |->
      [g[i].links[j] EXCEPT !.position = 4 * (j - 1)]]]]

Widened(g, p, j) ==
  [g EXCEPT ![p + 1].links[j].is_wide = TRUE]

LinkSlots(g) ==
  {s \in (0..(Len(g) - 1)) \X (1..MaxLinks) : s[2] <= Len(g[s[1] + 1].links)}

InitWidth ==
  /\ \E n \in 2..MaxTwinObjs : \E b \in Graphs(n, {Offset16}, TwinSizes) :
       /\ Connected(b)
       /\ \E w \in LinkSlots(b) \cup {<<>>} : \E v \in LinkSlots(b) :
            /\ v # w
            /\ LET g == Spread(IF w = <<>> THEN b ELSE Widened(b, w[1], w[2]))
               IN  /\ packed = Plain(g)
                   /\ objects_ = graph_t(Plain(g))
                   /\ twin_objects = graph_t(Plain(Widened(g, v[1], v[2])))
            /\ varied = v
  /\ sink = NewSink(0)
  /\ pc = "idle"
  /\ Fresh /\ NoProbe

SortBoth ==
  /\ pc = "idle"
  /\ \E r \in {sort_shortest_distance(objects_)} :
     \E t \in {sort_shortest_distance(twin_objects)} :
       /\ objects_' = r.objects
       /\ twin_objects' = t.objects
       /\ last_id_map' = r.id_map
       /\ twin_id_map' = t.id_map
       /\ last_distance_to' = r.distance_to
       /\ pc' = IF r.ok /\ t.ok THEN "done" ELSE "abort"
  /\ hist' = Append(hist, "sort_shortest_distance")
  /\ prev_objects' = objects_
  /\ UNCHANGED <<packed, sink, last_overflow, probe, fits, varied>>

NextWidth == SortBoth

SpecWidth == InitWidth /\ [][NextWidth]_vars

(***************************************************************************)
(* C7.  After sort_shortest_distance on both graphs, the byte distance     *)
(* from the parent of the varied link to its child (start of the child     *)
(* less start of the parent) in the graph where the link is narrow is at   *)
(* most that distance in the graph where it is wide.                       *)
(***************************************************************************)
VariedParent == varied[1]

VariedChild == LinkAt(prev_objects, varied[1], varied[2]).objidx

ByteDistance(objects, m, p, c) ==
  StartOf(objects, NewIndex(m, c)) - StartOf(objects, NewIndex(m, p))

C7_NarrowNoFarther ==
  (pc = "done" /\ LastCall = "sort_shortest_distance" /\ varied # <<>>) =>
    ByteDistance(objects_, last_id_map, VariedParent, VariedChild)
      <= ByteDistance(twin_objects, twin_id_map, VariedParent, VariedChild)

(***************************************************************************)
(* The calls serialize made on the sink.  A frame is the calls from a push *)
(* to the next pop_pack; the push and the pop_pack carry the Graph index   *)
(* of the object of the frame.                                             *)
(***************************************************************************)
IsPush(x) == x.op = "push"

FrameOrder(c) ==
  LET f == SelectSeq(c.calls, IsPush) IN [k \in 1..Len(f) |-> f[k].a]

AfterSerialize == LastCall = "serialize"

(***************************************************************************)
(* C11.  The order of the frames serialize opens.  As claimed, reverse     *)
(* index order: the k-th frame is the object at index length - k           *)
(* (C11_RootFrameFirst).  As amended, index order: the k-th frame is the   *)
(* object at index k - 1, and when no allocation fails there is a frame    *)
(* for every object, the root's being the last (C11_IndexOrder).           *)
(***************************************************************************)
C11_RootFrameFirst ==
  AfterSerialize =>
    \A k \in 1..Len(FrameOrder(sink)) : FrameOrder(sink)[k] = Len(objects_) - k

C11_IndexOrder ==
  AfterSerialize =>
    /\ Len(FrameOrder(sink)) >= 1
    /\ \A k \in 1..Len(FrameOrder(sink)) : FrameOrder(sink)[k] = k - 1
    /\ sink.successful =>
         /\ Len(FrameOrder(sink)) = Len(objects_)
         /\ FrameOrder(sink)[Len(objects_)] = Len(objects_) - 1

C11_Witness ==
  /\ AfterSerialize
  /\ sink.successful
  /\ FrameOrder(sink) = <<0, 1, 2>>

(***************************************************************************)
(* The sink numbers the frames in the order they are closed: the k-th      *)
(* pop_pack gives its object the index k (index 0 is the sink's nil).      *)
(***************************************************************************)
IsPop(x) == x.op = "pop_pack"

IsAddLink(x) == x.op = "add_link"

Closed(c) == {c.calls[q].a : q \in {r \in 1..Len(c.calls) : IsPop(c.calls[r])}}

SinkIndexOf(c, i) ==
  LET pops == SelectSeq(c.calls, IsPop)
  IN  CHOOSE k \in 1..Len(pops) : pops[k].a = i

PushAt(c, p) == CHOOSE q \in 1..Len(c.calls) : IsPush(c.calls[q]) /\ c.calls[q].a = p

FrameEnd(c, p) ==
  LET later == {q \in PushAt(c, p)..Len(c.calls) : IsPop(c.calls[q])}
  IN  IF later = {} THEN Len(c.calls)
      ELSE CHOOSE q \in later : \A r \in later : q <= r

FrameLinks(c, p) ==
  SelectSeq(SubSeq(c.calls, PushAt(c, p), FrameEnd(c, p)), IsAddLink)

Opened(c) == {FrameOrder(c)[k] : k \in 1..Len(FrameOrder(c))}

(***************************************************************************)
(* C12.  graph_t built from a list whose element 0 is null holds the other *)
(* objects in the same order, every link's objidx one less; and after      *)
(* serialize every closed frame registered its object's links in order,    *)
(* each with the target objidx + 1, which is the index the sink gave to    *)
(* the object at objidx.                                                   *)
(***************************************************************************)
HasNil == Len(packed) > 0 /\ packed[1] = <<>>

C12_SentinelRoundTrip ==
  /\ (hist = <<"graph_t">> /\ HasNil) =>
       /\ Len(objects_) = Len(packed) - 1
       /\ \A k \in 1..Len(objects_) :
            /\ objects_[k].size = packed[k + 1][1].size
            /\ Len(objects_[k].links) = Len(packed[k + 1][1].links)
            /\ \A j \in 1..Len(objects_[k].links) :
                 objects_[k].links[j] =
                   [packed[k + 1][1].links[j] EXCEPT !.objidx = @ - 1]
  /\ AfterSerialize =>
       \A p \in Opened(sink) :
         IF p \in Closed(sink)
         THEN /\ Len(FrameLinks(sink, p)) = Len(At(objects_, p).links)
              /\ \A j \in 1..Len(At(objects_, p).links) :
                   /\ FrameLinks(sink, p)[j].a = LinkAt(objects_, p, j).objidx + 1
                   /\ LinkAt(objects_, p, j).objidx \in Closed(sink)
                   /\ FrameLinks(sink, p)[j].a =
                        SinkIndexOf(sink, LinkAt(objects_, p, j).objidx)
         ELSE FrameLinks(sink, p) = <<>>

C12_Witness ==
  /\ AfterSerialize
  /\ HasNil
  /\ sink.successful
  /\ Len(objects_) = 3
  /\ Len(At(objects_, 2).links) = 2
  /\ LinkAt(objects_, 2, 1).objidx # LinkAt(objects_, 2, 2).objidx
  /\ objects_ # graph_t(packed)

(***************************************************************************)
(* C13.  The input is a root with two links of type Offset16, the first to *)
(* a leaf X of 80000 bytes, the second to a leaf Y of 4 bytes.  After      *)
(* sort_kahn the byte order is root, X, Y; will_overflow returns true, the *)
(* offset of Y being 2^16 or more; sort_shortest_distance follows and      *)
(* leaves the byte order root, Y, X, Y starting where the root ends, and   *)
(* the offset of Y fits.  As claimed, for every root (C13_AnyRoot); as     *)
(* amended, for a root shorter than 2^16 bytes (C13_ShortRoot).            *)
(***************************************************************************)
Imported == graph_t(packed)

Scenario13 ==
  /\ Len(Imported) = 3
  /\ Len(At(Imported, 2).links) = 2
  /\ \A j \in 1..2 :
       /\ LinkType(LinkAt(Imported, 2, j).is_wide, LinkAt(Imported, 2, j).is_signed,
                   LinkAt(Imported, 2, j).whence, LinkAt(Imported, 2, j).bias) = Offset16
       /\ At(Imported, LinkAt(Imported, 2, j).objidx).links = <<>>
  /\ LinkAt(Imported, 2, 1).objidx # LinkAt(Imported, 2, 2).objidx
  /\ At(Imported, LinkAt(Imported, 2, 1).objidx).size = 80000
  /\ At(Imported, LinkAt(Imported, 2, 2).objidx).size = 4

ByteOrderIs(objects, x, y) ==
  /\ Len(objects) = 3
  /\ Len(At(objects, 2).links) = 2
  /\ LinkAt(objects, 2, 1).objidx = x
  /\ LinkAt(objects, 2, 2).objidx = y
  /\ At(objects, x).size = 80000
  /\ At(objects, y).size = 4

Outcome13 ==
  /\ hist = <<"graph_t", "sort_kahn">> =>
       Returned /\ ByteOrderIs(objects_, 1, 0)
  /\ hist = <<"graph_t", "sort_kahn", "will_overflow">> =>
       /\ last_overflow.ok /\ last_overflow.overflow
       /\ Encoded(objects_, 2, LinkAt(objects_, 2, 2)) >= 65536
  /\ Len(hist) >= 4 => hist[4] = "sort_shortest_distance"
  /\ hist = <<"graph_t", "sort_kahn", "will_overflow", "sort_shortest_distance">> =>
       /\ Returned /\ ByteOrderIs(objects_, 0, 1)
       /\ StartOf(objects_, 1) = EndOf(objects_, 2)
       /\ Fits(W(Encoded(objects_, 2, LinkAt(objects_, 2, 2))), LinkAt(objects_, 2, 2))

C13_AnyRoot == Scenario13 => Outcome13

C13_ShortRoot ==
  (Scenario13 /\ At(Imported, 2).size < 65536) => Outcome13

C13_Witness ==
  /\ Scenario13
  /\ At(Imported, 2).size = 4
  /\ LastCall = "sort_shortest_distance"
  /\ LinkAt(Imported, 2, 1).objidx = 0

(***************************************************************************)
(* C14.  After a sort that returned, the new sequence is a permutation of  *)
(* the old one: every old index has one new index, the object there has    *)
(* the size and the links of the old object, in the same order and with    *)
(* the same fields, and each link's objidx is the new index of the object  *)
(* it pointed to.                                                          *)
(***************************************************************************)
C14_PureRelabelling ==
  (LastCall \in Sorts /\ Returned) =>
    /\ Len(objects_) = Len(prev_objects)
    /\ {NewIndex(last_id_map, i) : i \in Indices(prev_objects)} = Indices(objects_)
    /\ \A i \in Indices(prev_objects) :
         /\ NewIndex(last_id_map, i) \in Indices(objects_)
         /\ Relabelled(At(prev_objects, i),
                       At(objects_, NewIndex(last_id_map, i)), last_id_map)

C14_Witness ==
  /\ LastCall = "sort_kahn"
  /\ Returned
  /\ Len(objects_) = 4
  /\ \E i \in Indices(prev_objects) :
       /\ NewIndex(last_id_map, i) # i
       /\ Len(At(prev_objects, i).links) = 2
       /\ \E j \in 1..2 : NewIndex(last_id_map, LinkAt(prev_objects, i, j).objidx)
                            # LinkAt(prev_objects, i, j).objidx

(***************************************************************************)
(* C15.  After a sort_kahn that returned: the root was emitted first; an   *)
(* object other than the root became ready when the last of the links that *)
(* point to it was scanned, parents in emission order and the links of a   *)
(* parent in link order; and of two such objects the one that became ready *)
(* first was emitted first, each after all its parents.                    *)
(***************************************************************************)
EmittedAt(m, objects, i) == Len(objects) - NewIndex(m, i)

Incoming(objects, c) ==
  {s \in LinkSlots(objects) : LinkAt(objects, s[1], s[2]).objidx = c}

Earlier(m, objects, s, t) ==
  \/ EmittedAt(m, objects, s[1]) < EmittedAt(m, objects, t[1])
  \/ s[1] = t[1] /\ s[2] < t[2]

ReadyAt(m, objects, c) ==
  CHOOSE s \in Incoming(objects, c) :
    \A t \in Incoming(objects, c) : t = s \/ Earlier(m, objects, t, s)

C15_KahnFifo ==
  (LastCall = "sort_kahn" /\ Returned /\ Len(prev_objects) >= 2) =>
    LET n    == Len(prev_objects)
        rest == Indices(prev_objects) \ {n - 1}
    IN  /\ EmittedAt(last_id_map, prev_objects, n - 1) = 1
        /\ \A a \in rest :
             /\ Incoming(prev_objects, a) # {}
             /\ \A s \in Incoming(prev_objects, a) :
                  EmittedAt(last_id_map, prev_objects, s[1])
                    < EmittedAt(last_id_map, prev_objects, a)
        /\ \A a \in rest : \A b \in rest :
             Earlier(last_id_map, prev_objects,
                     ReadyAt(last_id_map, prev_objects, a),
                     ReadyAt(last_id_map, prev_objects, b))
               => EmittedAt(last_id_map, prev_objects, a)
                    < EmittedAt(last_id_map, prev_objects, b)

C15_Witness ==
  /\ LastCall = "sort_kahn"
  /\ Returned
  /\ Len(prev_objects) = 4
  /\ \E c \in Indices(prev_objects) : Cardinality(Incoming(prev_objects, c)) >= 2
  /\ \E i \in Indices(prev_objects) : NewIndex(last_id_map, i) # i

(***************************************************************************)
(* C16.  After a sort_shortest_distance that returned: at each step the    *)
(* ready objects are those not yet emitted whose parents are all emitted;  *)
(* the object emitted at the step is ready, no ready object has a smaller  *)
(* distance, and none of the same distance has a smaller index (indices of *)
(* the graph the sort was called on).                                      *)
(***************************************************************************)
EmittedBefore(m, objects, k) ==
  {i \in Indices(objects) : EmittedAt(m, objects, i) < k}

ReadySet(m, objects, k) ==
  {i \in Indices(objects) \ EmittedBefore(m, objects, k) :
     \A s \in Incoming(objects, i) : s[1] \in EmittedBefore(m, objects, k)}

Chosen(m, objects, k) ==
  CHOOSE i \in Indices(objects) : EmittedAt(m, objects, i) = k

C16_ClosestReadyFirst ==
  (LastCall = "sort_shortest_distance" /\ Returned /\ Len(prev_objects) >= 2) =>
    \A k \in 1..Len(prev_objects) :
      LET e == Chosen(last_id_map, prev_objects, k)
      IN  /\ \E i \in Indices(prev_objects) : EmittedAt(last_id_map, prev_objects, i) = k
          /\ e \in ReadySet(last_id_map, prev_objects, k)
          /\ \A r \in ReadySet(last_id_map, prev_objects, k) :
               \/ Less(last_distance_to[e], last_distance_to[r])
               \/ last_distance_to[e] = last_distance_to[r] /\ e <= r

C16_Witness ==
  /\ LastCall = "sort_shortest_distance"
  /\ Returned
  /\ Len(prev_objects) = 4
  /\ \E k \in 1..4 :
       \E r \in ReadySet(last_id_map, prev_objects, k) :
         /\ r # Chosen(last_id_map, prev_objects, k)
         /\ last_distance_to[r] =
              last_distance_to[Chosen(last_id_map, prev_objects, k)]
  /\ \E k \in 1..4 :
       \E r \in ReadySet(last_id_map, prev_objects, k) :
         /\ r < Chosen(last_id_map, prev_objects, k)
         /\ Less(last_distance_to[Chosen(last_id_map, prev_objects, k)],
                 last_distance_to[r])

(***************************************************************************)
(* C17.  After compute_distances (in a sort_shortest_distance that         *)
(* returned) on a connected graph in reverse topological order:            *)
(* distance[root] = 0 and distance[v] is the least sum of link weights     *)
(* over the paths from the root to v, in the integers.                     *)
(***************************************************************************)
Least(S) == CHOOSE x \in S : \A y \in S : Leq(x, y)

RECURSIVE ExactDistance(_, _)
ExactDistance(objects, v) ==
  IF v = Len(objects) - 1 THEN W(0)
  ELSE Least({Add(ExactDistance(objects, s[1]),
                  Weight(objects, LinkAt(objects, s[1], s[2]))) :
              s \in Incoming(objects, v)})

C17_ExactDistances ==
  (/\ LastCall = "sort_shortest_distance" /\ Returned /\ Len(prev_objects) >= 2
   /\ Topological(prev_objects) /\ Connected(prev_objects)) =>
    \A v \in Indices(prev_objects) :
      last_distance_to[v] = ExactDistance(prev_objects, v)

(***************************************************************************)
(* C18.  After serialize of a graph in reverse topological order: for      *)
(* every add_link among the calls, the frame of the link's child was       *)
(* opened and closed before it.  The link of an add_link is found from the *)
(* frame it is in and its number in the frame.                             *)
(***************************************************************************)
AddLinkCalls(c) == {q \in 1..Len(c.calls) : IsAddLink(c.calls[q])}

OwnerPush(c, q) ==
  CHOOSE r \in 1..q : /\ IsPush(c.calls[r])
                      /\ \A t \in (r + 1)..q : ~IsPush(c.calls[t])

LinkNumber(c, q) ==
  Cardinality({r \in OwnerPush(c, q)..q : IsAddLink(c.calls[r])})

ChildOfCall(c, objects, q) ==
  LinkAt(objects, c.calls[OwnerPush(c, q)].a, LinkNumber(c, q)).objidx

C18_ChildEmittedFirst ==
  (AfterSerialize /\ Topological(objects_)) =>
    \A q \in AddLinkCalls(sink) :
      \E q1 \in 1..q : \E q2 \in q1..q :
        /\ q2 < q
        /\ IsPush(sink.calls[q1])
        /\ sink.calls[q1].a = ChildOfCall(sink, objects_, q)
        /\ IsPop(sink.calls[q2])
        /\ sink.calls[q2].a = ChildOfCall(sink, objects_, q)

C18_Witness ==
  /\ AfterSerialize
  /\ Topological(objects_)
  /\ Cardinality(AddLinkCalls(sink)) >= 3
  /\ \E q \in AddLinkCalls(sink) :
       ChildOfCall(sink, objects_, q) + 1 < sink.calls[OwnerPush(sink, q)].a

====
